---- MODULE Spec2Model ----
(***************************************************************************)
(* Model of src/ui/camera_stream_ui.py (class CameraStreamUI).             *)
(*                                                                         *)
(* Spec       : one session, CameraStreamUI() followed by run(), with the  *)
(*              pointer events the window delivers during waitKey.         *)
(* SpecFilter : the filter stage (apply_filter and the frame selection of  *)
(*              draw_processed_stream) applied to small frames.            *)
(*                                                                         *)
(* Arithmetic. int(0.10*screen_h) equals screen_h \div 10 and int(w_f*1.2) *)
(* equals (12*w_f) \div 10 for every positive integer below 5000 in IEEE     *)
(* double arithmetic.  int(display_w / (w_f/h_f)) is a quotient of doubles  *)
(* whose rounding can fall below an exact integer; DisplayH reproduces it. *)
(***************************************************************************)
EXTENDS Integers, Sequences, FiniteSets, TLC

VARIABLES
    pc,               \* position of run()
    screen_w,         \* GetSystemMetrics(0) of the primary monitor
    screen_h,         \* GetSystemMetrics(1) of the primary monitor
    cam_size,         \* <<w_f, h_f>> of the frames the camera delivers
    cap_opened,       \* self.cap.isOpened() after construction
    cap_released,     \* self.cap.release() was called
    cap_read_called,  \* self.cap.read() was called at least once
    window_created,   \* cv2.namedWindow was called
    windows_destroyed,\* cv2.destroyAllWindows was called
    mouse_param,      \* <<>> until setMouseCallback; then <<panel_width>>
    printed,          \* sequence of the messages printed
    raised,           \* the exception that ended run(), or "None"
    selected_filter,  \* self.selected_filter
    prev_time,        \* self.prev_time
    fps,              \* self.fps as <<numerator, denominator>>
    header_rect,      \* locals of run(): (x, y, w, h), <<>> while unbound
    footer_rect,
    orig_rect,
    proc_rect,
    btn_rects,        \* the btn_rect tuples of the last draw_header call
    orig_region,      \* <<x1, y1, display_h, display_w>> of draw_original_stream
    proc_region,      \* <<x1, y1, display_h, display_w>> of draw_processed_stream
    ev,               \* pointer event being dispatched in this waitKey
    clicked,          \* what get_button_clicked returned for ev
    lastAccepted,     \* the button of the last click get_button_clicked matched
    frame,            \* filter stage: the input frame
    color,            \* filter stage: the color argument of apply_filter
    op,               \* filter stage: the operation that produced out
    out               \* filter stage: the frame produced

sessionVars == <<pc, screen_w, screen_h, cam_size, cap_opened, cap_released,
                 cap_read_called, window_created, windows_destroyed,
                 mouse_param, printed, raised, prev_time, fps,
                 header_rect, footer_rect, orig_rect, proc_rect, btn_rects,
                 orig_region, proc_region, ev, clicked, lastAccepted>>
filterVars == <<frame, color, op, out>>
vars == <<sessionVars, selected_filter, filterVars>>

----------------------------------------------------------------------------
(* Bounds *)

MaxClock == 2      \* time.time() takes values 0..MaxClock
MaxPix == 1        \* filter stage: channel intensities 0..MaxPix

FrameShapes == {<<1, 1>>, <<1, 2>>, <<2, 1>>}   \* filter stage: <<rows, columns>>

ScreenWs == {800, 1365, 1920}
ScreenHs == {600, 805, 1080}
FrameSizes == {<<320, 240>>, <<640, 480>>, <<1280, 720>>}
EventTypes == {"EVENT_LBUTTONDOWN", "EVENT_MOUSEMOVE"}

----------------------------------------------------------------------------
(* Fields set by __init__ *)

header_height == 80
button_width == 200
button_height == 50
button_margin == 30
DefaultPanelWidth == 1920
RatioNum == 12     \* ratio = 1.2 = RatioNum / RatioDen
RatioDen == 10

None == "None"
ButtonNames == <<"red", "green", "blue">>
Filters == {"red", "green", "blue"}
NoEvent == [type |-> "none", x |-> 0, y |-> 0]

----------------------------------------------------------------------------
(* Button geometry *)

\* draw_header, lines 57-59, and get_button_clicked, lines 98-99
StartX(panel_width) ==
    (panel_width - (3 * button_width + 2 * button_margin)) \div 2

\* draw_header: btn_rect of button i (1..3) drawn in a header of size w x h
BtnRect(i, w, h) ==
    <<StartX(w) + (i - 1) * (button_width + button_margin),
      (h - button_height) \div 2,
      button_width, button_height>>

\* cv2.rectangle fills both corners inclusively
InRect(r, x, y) ==
    /\ r[1] <= x /\ x <= r[1] + r[3]
    /\ r[2] <= y /\ y <= r[2] + r[4]

\* get_button_clicked: rectangle tested for button i
HitRect(i, panel_width) ==
    <<StartX(panel_width) + (i - 1) * (button_width + button_margin),
      (header_height - button_height) \div 2,
      button_width, button_height>>

get_button_clicked(x, y, panel_width) ==
    IF InRect(HitRect(1, panel_width), x, y) THEN ButtonNames[1]
    ELSE IF InRect(HitRect(2, panel_width), x, y) THEN ButtonNames[2]
    ELSE IF InRect(HitRect(3, panel_width), x, y) THEN ButtonNames[3]
    ELSE None

\* mouse_callback, line 118
PanelWidthOf(param) ==
    IF Len(param) > 0 THEN param[1] ELSE DefaultPanelWidth

\* mouse_callback, line 117
Gate(event, y) == event = "EVENT_LBUTTONDOWN" /\ y < header_height

\* what get_button_clicked returned in mouse_callback, None when not called
ClickedOf(event, x, y, param) ==
    IF Gate(event, y) THEN get_button_clicked(x, y, PanelWidthOf(param))
    ELSE None

mouse_callback_always_assigns(sel, event, x, y, param) ==
    IF Gate(event, y) THEN ClickedOf(event, x, y, param) ELSE sel

mouse_callback_toggles(sel, event, x, y, param) ==
    IF ClickedOf(event, x, y, param) = None THEN sel
    ELSE IF ClickedOf(event, x, y, param) = sel THEN None
    ELSE ClickedOf(event, x, y, param)

\* mouse_callback: the value of self.selected_filter after the call
mouse_callback(sel, event, x, y, param) ==
    IF ClickedOf(event, x, y, param) # None
    THEN ClickedOf(event, x, y, param)
    ELSE sel

----------------------------------------------------------------------------
(* Layout and stream geometry *)

HeaderHeight(sh) == sh \div 10          \* int(0.10 * screen_h)
FooterHeight(sh) == sh \div 10          \* int(0.10 * screen_h)
StreamPanelHeight(sh) == sh - HeaderHeight(sh) - FooterHeight(sh)
StreamPanelWidth(sw) == sw \div 2

HeaderRect(sw, sh) == <<0, 0, sw, HeaderHeight(sh)>>
FooterRect(sw, sh) == <<0, sh - FooterHeight(sh), sw, FooterHeight(sh)>>
OrigRect(sw, sh) ==
    <<0, HeaderHeight(sh), StreamPanelWidth(sw), StreamPanelHeight(sh)>>
ProcRect(sw, sh) ==
    <<StreamPanelWidth(sw), HeaderHeight(sh),
      StreamPanelWidth(sw), StreamPanelHeight(sh)>>

DisplayW(w_f) == (RatioNum * w_f) \div RatioDen     \* int(w_f * ratio)

(* int(display_w / aspect) with aspect = w_f / h_f, both quotients rounded to  *)
(* IEEE doubles (53-bit significands, round to nearest).  The result is the    *)
(* exact floor of display_w*h_f/w_f unless that quotient is an integer q, the  *)
(* double w_f/h_f was rounded up, and the second quotient, q - q*r/(h_f*m),    *)
(* rounds to the double below q; then the truncation gives q - 1.  Here m is   *)
(* the significand of aspect, 2^AspectExp(w_f,h_f) its binade and              *)
(* r = m*h_f - w_f*2^(52 - AspectExp) the rounding excess of the first         *)
(* quotient, all computed in integers.                                         *)
RECURSIVE Log2Floor(_)
Log2Floor(n) == IF n < 2 THEN 0 ELSE 1 + Log2Floor(n \div 2)

RECURSIVE ShiftsToReach(_, _)
ShiftsToReach(a, b) == IF a >= b THEN 0 ELSE 1 + ShiftsToReach(2 * a, b)

RECURSIVE PowMod2(_, _)
PowMod2(e, n) == IF e = 0 THEN 1 % n ELSE (2 * PowMod2(e - 1, n)) % n

\* floor(log2(w_f / h_f)): the binary exponent of aspect
AspectExp(w_f, h_f) ==
    IF w_f >= h_f THEN Log2Floor(w_f \div h_f) ELSE 0 - ShiftsToReach(w_f, h_f)

\* (w_f * 2^(52 - AspectExp)) mod h_f: what rounding the significand discards
AspectResidue(w_f, h_f) ==
    ((w_f % h_f) * PowMod2(52 - AspectExp(w_f, h_f), h_f)) % h_f

\* display_w / aspect rounds to the double just below the integer q
QuotientRoundsBelow(q, w_f, h_f) ==
    LET rho == AspectResidue(w_f, h_f)
        r == h_f - rho
        k == Log2Floor(q)
        e == (IF q = 2 ^ k THEN 2 ELSE 1) + AspectExp(w_f, h_f) - k
    IN  /\ 2 * rho > h_f
        /\ IF e >= 0 THEN q * r * (2 ^ e) > w_f
                     ELSE q * r > w_f * (2 ^ (0 - e))

DisplayH(w_f, h_f) ==
    LET q == (DisplayW(w_f) * h_f) \div w_f
    IN  IF /\ (DisplayW(w_f) * h_f) % w_f = 0
           /\ q > 0
           /\ QuotientRoundsBelow(q, w_f, h_f)
        THEN q - 1 ELSE q

\* draw_original_stream / draw_processed_stream: <<x1, y1, display_h, display_w>>
StreamRegion(rect, size) ==
    <<rect[1] + rect[3] \div 2 - DisplayW(size[1]) \div 2,
      rect[2] + rect[4] \div 2 - DisplayH(size[1], size[2]) \div 2,
      DisplayH(size[1], size[2]),
      DisplayW(size[1])>>

\* panel[y1:y1+display_h, x1:x1+display_w] = resized succeeds exactly when the
\* slice has the shape of resized, i.e. the region lies inside the canvas
WriteFits(region, sw, sh) ==
    /\ 0 <= region[1] /\ region[1] + region[4] <= sw
    /\ 0 <= region[2] /\ region[2] + region[3] <= sh

----------------------------------------------------------------------------
(* Filter stage *)

Pixels(f) == (1..f.h) \X (1..f.w)

Frames ==
    UNION {{[h |-> sz[1], w |-> sz[2], px |-> p] :
              p \in [(1..sz[1]) \X (1..sz[2]) -> [0..2 -> 0..MaxPix]]} :
           sz \in FrameShapes}

NoFrame == [h |-> 0, w |-> 0, px |-> <<>>]

\* np.zeros_like(frame)
zeros_like(f) ==
    [h |-> f.h, w |-> f.w, px |-> [p \in Pixels(f) |-> [c \in 0..2 |-> 0]]]

\* filtered[:, :, ch] = frame[:, :, ch]
CopyChannel(filtered, f, ch) ==
    [filtered EXCEPT !.px =
        [p \in Pixels(f) |-> [filtered.px[p] EXCEPT ![ch] = f.px[p][ch]]]]

apply_filter_rgb(f, c) ==
    IF c = "red" THEN CopyChannel(zeros_like(f), f, 0)
    ELSE IF c = "green" THEN CopyChannel(zeros_like(f), f, 1)
    ELSE IF c = "blue" THEN CopyChannel(zeros_like(f), f, 2)
    ELSE zeros_like(f)

apply_filter(f, c) ==
    IF c = "red" THEN CopyChannel(zeros_like(f), f, 2)
    ELSE IF c = "green" THEN CopyChannel(zeros_like(f), f, 1)
    ELSE IF c = "blue" THEN CopyChannel(zeros_like(f), f, 0)
    ELSE zeros_like(f)

proc_frame_always_filters(f, sel) == apply_filter(f, sel)

\* draw_processed_stream, lines 156-159
proc_frame(f, sel) ==
    IF sel # None THEN apply_filter(f, sel) ELSE f

----------------------------------------------------------------------------
(* Initial states *)

InitObject ==
    /\ pc = "start"
    /\ cap_released = FALSE
    /\ cap_read_called = FALSE
    /\ window_created = FALSE
    /\ windows_destroyed = FALSE
    /\ mouse_param = <<>>
    /\ printed = <<>>
    /\ raised = None
    /\ prev_time = 0
    /\ fps = <<0, 1>>
    /\ header_rect = <<>>
    /\ footer_rect = <<>>
    /\ orig_rect = <<>>
    /\ proc_rect = <<>>
    /\ btn_rects = <<>>
    /\ orig_region = <<>>
    /\ proc_region = <<>>
    /\ ev = NoEvent
    /\ clicked = None
    /\ lastAccepted = None

Init ==
    /\ InitObject
    /\ screen_w \in ScreenWs
    /\ screen_h \in ScreenHs
    /\ cam_size \in FrameSizes
    /\ cap_opened \in BOOLEAN
    /\ selected_filter = None
    /\ frame = NoFrame
    /\ color = None
    /\ op = "none"
    /\ out = NoFrame

----------------------------------------------------------------------------
(* Pointer events the window can deliver: the positions on and around the   *)
(* edges of the drawn and of the tested button rectangles                   *)

ClickXs(sw) ==
    {0,
     BtnRect(1, sw, 0)[1],
     BtnRect(1, sw, 0)[1] + button_width + 1,
     BtnRect(2, sw, 0)[1] + button_width \div 2,
     BtnRect(3, sw, 0)[1] + button_width,
     BtnRect(3, sw, 0)[1] + button_width + 1}

ClickYs(sh) ==
    {-1, header_height - 1, header_height,
     HitRect(1, 0)[2], HitRect(1, 0)[2] + button_height,
     HitRect(1, 0)[2] + button_height + 1,
     HeaderHeight(sh),
     BtnRect(1, 0, HeaderHeight(sh))[2],
     BtnRect(1, 0, HeaderHeight(sh))[2] + button_height \div 2,
     BtnRect(1, 0, HeaderHeight(sh))[2] + button_height}

----------------------------------------------------------------------------
(* run() *)

\* line 187
OpenCheckNeverFails(opened) == FALSE

OpenCheckFails(opened) == ~opened

keepLayout == <<header_rect, footer_rect, orig_rect, proc_rect>>
keepEnv == <<screen_w, screen_h, cam_size, cap_opened>>
keepPointer == <<ev, clicked, lastAccepted, selected_filter>>
keepDrawn == <<btn_rects, orig_region, proc_region>>
keepClock == <<prev_time, fps>>

\* lines 187-192
RunStart ==
    /\ pc = "start"
    /\ IF OpenCheckFails(cap_opened)
       THEN /\ printed' = Append(printed, "Error: Could not open camera.")
            /\ pc' = "returned"
            /\ UNCHANGED window_created
       ELSE /\ window_created' = TRUE
            /\ pc' = "init_read"
            /\ UNCHANGED printed
    /\ UNCHANGED <<keepEnv, keepLayout, keepPointer, keepDrawn, keepClock,
                   cap_released, cap_read_called, windows_destroyed,
                   mouse_param, raised, filterVars>>

\* lines 193-196: the first read; a failure returns at once
InitialRead ==
    /\ pc = "init_read"
    /\ cap_read_called' = TRUE
    /\ \E ret \in BOOLEAN :
         IF ~ret
         THEN /\ printed' = Append(printed, "Error: Failed to read frame.")
              /\ pc' = "returned"
         ELSE /\ pc' = "layout"
              /\ UNCHANGED printed
    /\ UNCHANGED <<keepEnv, keepLayout, keepPointer, keepDrawn, keepClock,
                   cap_released, window_created, windows_destroyed,
                   mouse_param, raised, filterVars>>

\* lines 197-211
ComputeLayout ==
    /\ pc = "layout"
    /\ header_rect' = HeaderRect(screen_w, screen_h)
    /\ footer_rect' = FooterRect(screen_w, screen_h)
    /\ orig_rect' = OrigRect(screen_w, screen_h)
    /\ proc_rect' = ProcRect(screen_w, screen_h)
    /\ mouse_param' = <<screen_w>>
    /\ pc' = "loop_read"
    /\ UNCHANGED <<keepEnv, keepPointer, keepDrawn, keepClock, cap_released,
                   cap_read_called, window_created, windows_destroyed,
                   printed, raised, filterVars>>

\* lines 213-216
LoopRead ==
    /\ pc = "loop_read"
    /\ \E ret \in BOOLEAN :
         IF ~ret
         THEN /\ printed' = Append(printed, "Error: Failed to read frame.")
              /\ pc' = "release"
         ELSE /\ pc' = "update_fps"
              /\ UNCHANGED printed
    /\ UNCHANGED <<keepEnv, keepLayout, keepPointer, keepDrawn, keepClock,
                   cap_released, cap_read_called, window_created,
                   windows_destroyed, mouse_param, raised, filterVars>>

\* update_fps, lines 23-25: fps = 1 / (current_time - prev_time).  time.time()
\* is wall-clock time: it may repeat (ZeroDivisionError at line 24, before
\* either field is written) and it may go back (a negative fps).
update_fps ==
    /\ pc = "update_fps"
    /\ \E current_time \in 0..MaxClock :
         IF current_time = prev_time
         THEN /\ pc' = "raised"
              /\ raised' = "ZeroDivisionError"
              /\ UNCHANGED keepClock
         ELSE /\ fps' = <<1, current_time - prev_time>>
              /\ prev_time' = current_time
              /\ pc' = "draw_header"
              /\ UNCHANGED raised
    /\ UNCHANGED <<keepEnv, keepLayout, keepPointer, keepDrawn, cap_released,
                   cap_read_called, window_created, windows_destroyed,
                   mouse_param, printed, filterVars>>

\* draw_header, lines 49-85, called with header_rect
draw_header ==
    /\ pc = "draw_header"
    /\ btn_rects' = [i \in 1..3 |-> BtnRect(i, header_rect[3], header_rect[4])]
    /\ pc' = "draw_footer"
    /\ UNCHANGED <<keepEnv, keepLayout, keepPointer, keepClock, orig_region,
                   proc_region, cap_released, cap_read_called, window_created,
                   windows_destroyed, mouse_param, printed, raised, filterVars>>

\* draw_footer, line 179
draw_footer ==
    /\ pc = "draw_footer"
    /\ pc' = "draw_original"
    /\ UNCHANGED <<keepEnv, keepLayout, keepPointer, keepDrawn, keepClock,
                   cap_released, cap_read_called, window_created,
                   windows_destroyed, mouse_param, printed, raised, filterVars>>

\* draw_original_stream, lines 137-150; the slice assignment of line 148
\* raises ValueError when the region leaves the canvas
draw_original_stream ==
    /\ pc = "draw_original"
    /\ orig_region' = StreamRegion(orig_rect, cam_size)
    /\ IF WriteFits(StreamRegion(orig_rect, cam_size), screen_w, screen_h)
       THEN pc' = "draw_processed" /\ UNCHANGED raised
       ELSE pc' = "raised" /\ raised' = "ValueError"
    /\ UNCHANGED <<keepEnv, keepLayout, keepPointer, keepClock, btn_rects,
                   proc_region, cap_released, cap_read_called, window_created,
                   windows_destroyed, mouse_param, printed, filterVars>>

\* draw_processed_stream, lines 156-173
draw_processed_stream ==
    /\ pc = "draw_processed"
    /\ proc_region' = StreamRegion(proc_rect, cam_size)
    /\ IF WriteFits(StreamRegion(proc_rect, cam_size), screen_w, screen_h)
       THEN pc' = "imshow" /\ UNCHANGED raised
       ELSE pc' = "raised" /\ raised' = "ValueError"
    /\ UNCHANGED <<keepEnv, keepLayout, keepPointer, keepClock, btn_rects,
                   orig_region, cap_released, cap_read_called, window_created,
                   windows_destroyed, mouse_param, printed, filterVars>>

\* line 227
Present ==
    /\ pc = "imshow"
    /\ pc' = "waitKey"
    /\ UNCHANGED <<keepEnv, keepLayout, keepPointer, keepDrawn, keepClock,
                   cap_released, cap_read_called, window_created,
                   windows_destroyed, mouse_param, printed, raised, filterVars>>

\* mouse_callback, lines 117-121, run by the window while waitKey polls
MouseEvent ==
    /\ pc = "waitKey"
    /\ Len(mouse_param) > 0
    /\ \E event \in EventTypes, x \in ClickXs(screen_w), y \in ClickYs(screen_h) :
         /\ ev' = [type |-> event, x |-> x, y |-> y]
         /\ clicked' = ClickedOf(event, x, y, mouse_param)
         /\ selected_filter' = mouse_callback(selected_filter, event, x, y, mouse_param)
         /\ lastAccepted' = IF ClickedOf(event, x, y, mouse_param) # None
                            THEN ClickedOf(event, x, y, mouse_param)
                            ELSE lastAccepted
    /\ UNCHANGED <<pc, keepEnv, keepLayout, keepDrawn, keepClock, cap_released,
                   cap_read_called, window_created, windows_destroyed,
                   mouse_param, printed, raised, filterVars>>

\* line 228: waitKey returns; 'q' leaves the loop
WaitKey ==
    /\ pc = "waitKey"
    /\ \E quit \in BOOLEAN :
         pc' = IF quit THEN "release" ELSE "loop_read"
    /\ ev' = NoEvent
    /\ clicked' = None
    /\ UNCHANGED <<keepEnv, keepLayout, keepDrawn, keepClock, lastAccepted,
                   selected_filter, cap_released, cap_read_called,
                   window_created, windows_destroyed, mouse_param, printed,
                   raised, filterVars>>

\* lines 230-231
Release ==
    /\ pc = "release"
    /\ cap_released' = TRUE
    /\ windows_destroyed' = TRUE
    /\ pc' = "returned"
    /\ UNCHANGED <<keepEnv, keepLayout, keepPointer, keepDrawn, keepClock,
                   cap_read_called, window_created, mouse_param, printed,
                   raised, filterVars>>

Next ==
    \/ RunStart
    \/ InitialRead
    \/ ComputeLayout
    \/ LoopRead
    \/ update_fps
    \/ draw_header
    \/ draw_footer
    \/ draw_original_stream
    \/ draw_processed_stream
    \/ Present
    \/ MouseEvent
    \/ WaitKey
    \/ Release

Spec == Init /\ [][Next]_vars

----------------------------------------------------------------------------
(* The filter stage on its own *)

InitFilter ==
    /\ InitObject
    /\ screen_w \in {1920}
    /\ screen_h \in {1080}
    /\ cam_size \in {<<640, 480>>}
    /\ cap_opened = TRUE
    /\ selected_filter \in Filters \cup {None}
    /\ frame \in Frames
    /\ color = None
    /\ op = "none"
    /\ out = NoFrame

\* apply_filter(frame, c), lines 36-43
CallApplyFilter ==
    /\ op = "none"
    /\ \E c \in Filters \cup {None} :
         /\ color' = c
         /\ out' = apply_filter(frame, c)
    /\ op' = "apply_filter"
    /\ UNCHANGED <<sessionVars, selected_filter, frame>>

\* draw_processed_stream, lines 156-159: the frame that is resized and drawn
CallProcFrame ==
    /\ op = "none"
    /\ out' = proc_frame(frame, selected_filter)
    /\ op' = "draw_processed_stream"
    /\ UNCHANGED <<sessionVars, selected_filter, frame, color>>

NextFilter == CallApplyFilter \/ CallProcFrame

SpecFilter == InitFilter /\ [][NextFilter]_vars

----------------------------------------------------------------------------
(* Properties *)

Returned == pc \in {"returned", "raised"}

\* C1: a left-button-down inside a button rectangle that draw_header drew
\* selects that button's filter.
C1_RenderedButtonClickSelects ==
    \A i \in 1..3 :
        (/\ btn_rects # <<>>
         /\ ev.type = "EVENT_LBUTTONDOWN"
         /\ InRect(btn_rects[i], ev.x, ev.y))
        => selected_filter = ButtonNames[i]

\* C2: a run() that had an opened capture source ends with the capture
\* source released and the windows destroyed.
C2_RunEndsReleased ==
    (Returned /\ cap_opened) => (cap_released /\ windows_destroyed)

\* C3: the four layout rectangles partition the canvas: the heights of header,
\* stream panel and footer add up to screen_h, the widths of the two stream
\* panels add up to screen_w, and neighbours share their edges.
C3_LayoutPartitions ==
    header_rect # <<>> =>
        /\ header_rect[4] + proc_rect[4] + footer_rect[4] = screen_h
        /\ orig_rect[3] + proc_rect[3] = screen_w
        /\ header_rect[2] + header_rect[4] = orig_rect[2]
        /\ orig_rect[2] + orig_rect[4] = footer_rect[2]
        /\ orig_rect[1] + orig_rect[3] = proc_rect[1]
        /\ orig_rect[2] = proc_rect[2] /\ orig_rect[4] = proc_rect[4]

\* C4: an event that is not a left-button-down, or whose y lies outside the
\* header band of the layout, or that lies in no button rectangle of the hit
\* test, matches no button and leaves selected_filter unchanged.
C4_OutsideHeaderRejected ==
    [][(/\ pc = "waitKey" /\ pc' = "waitKey"
        /\ \/ ev'.type # "EVENT_LBUTTONDOWN"
           \/ ev'.y < 0
           \/ ev'.y >= header_rect[4]
           \/ \A i \in 1..3 :
                ~InRect(HitRect(i, PanelWidthOf(mouse_param)), ev'.x, ev'.y))
       => (clicked' = None /\ selected_filter' = selected_filter)]_vars

\* C5: apply_filter(F, C) with C in {red, green, blue} leaves F as it was and
\* returns a frame of F's dimensions whose channel bound to C (red 2, green 1,
\* blue 0) equals F's and whose other two channels are 0 at every pixel.
C5_ApplyFilterIsolatesChannel ==
    [][(op = "none" /\ op' = "apply_filter" /\ color' \in Filters)
       => /\ frame' = frame
          /\ out'.h = frame.h /\ out'.w = frame.w
          /\ DOMAIN out'.px = (1..frame.h) \X (1..frame.w)
          /\ \A p \in (1..frame.h) \X (1..frame.w) : \A c \in 0..2 :
               out'.px[p][c] =
                 IF \/ (color' = "red" /\ c = 2)
                    \/ (color' = "green" /\ c = 1)
                    \/ (color' = "blue" /\ c = 0)
                 THEN frame.px[p][c] ELSE 0]_vars

C5_Witness ==
    /\ op = "apply_filter" /\ color = "red" /\ frame.w = 2
    /\ frame.px[<<1, 1>>][2] # 0 /\ frame.px[<<1, 1>>][0] # 0
    /\ out.px[<<1, 1>>][2] = frame.px[<<1, 1>>][2]
    /\ out.px[<<1, 1>>][0] = 0

\* C6 as claimed: with selection None the result is pixel-identical to F, for
\* apply_filter called with None and for the processed panel alike.
C6_NoneIsIdentity ==
    /\ (op = "apply_filter" /\ color = None) => out = frame
    /\ (op = "draw_processed_stream" /\ selected_filter = None) => out = frame

\* C6 amended: the frame the processed panel draws while selected_filter is
\* None is pixel-identical to F; apply_filter called with None returns a frame
\* of F's dimensions with every channel 0.
C6_NonePanelIdentityFilterZero ==
    /\ (op = "draw_processed_stream" /\ selected_filter = None) => out = frame
    /\ (op = "apply_filter" /\ color = None) =>
          /\ out.h = frame.h /\ out.w = frame.w
          /\ \A p \in (1..frame.h) \X (1..frame.w) : \A c \in 0..2 :
               out.px[p][c] = 0

C6_Witness ==
    /\ op = "draw_processed_stream" /\ selected_filter = None
    /\ \E p \in Pixels(frame) : \A c \in 0..2 : frame.px[p][c] # 0
    /\ out = frame

\* C7: selected_filter changes only in mouse_callback, on a left-button-down
\* for which get_button_clicked returned a button, to that button; every
\* other step keeps it, so it always is the button of the last accepted click.
C7_OnlyAcceptedClickWrites ==
    [][/\ (selected_filter' # selected_filter) =>
            /\ pc = "waitKey" /\ pc' = "waitKey"
            /\ ev'.type = "EVENT_LBUTTONDOWN"
            /\ clicked' \in Filters
            /\ selected_filter' = clicked'
       /\ selected_filter' = lastAccepted']_vars

C7_Witness ==
    /\ pc = "draw_processed" /\ fps[2] < 0
    /\ selected_filter = "green" /\ lastAccepted = "green"
    /\ ev = NoEvent

\* C8: when the capture source failed to open, run() creates no window,
\* registers no pointer handler, reads no frame, never enters the loop, and
\* returns having printed the failure.
C8_OpenFailureStopsRun ==
    ~cap_opened =>
        /\ ~window_created
        /\ mouse_param = <<>>
        /\ ~cap_read_called
        /\ ~windows_destroyed
        /\ pc \in {"start", "returned"}
        /\ pc = "returned" => printed = <<"Error: Could not open camera.">>

C8_Witness ==
    ~cap_opened /\ pc = "returned" /\ Len(printed) = 1

\* C9: the regions draw_original_stream and draw_processed_stream write lie
\* inside the canvas.
C9_StreamRegionsInsideCanvas ==
    \A r \in {orig_region, proc_region} :
        r # <<>> =>
            /\ 0 <= r[1] /\ r[1] + r[4] <= screen_w
            /\ 0 <= r[2] /\ r[2] + r[3] <= screen_h

\* C10: selected_filter starts as None, and once it holds a filter no step
\* sets it back to None.
C10_FilterNeverCleared ==
    /\ selected_filter = None
    /\ [][selected_filter # None => selected_filter' # None]_vars

C10_Witness ==
    /\ selected_filter = "red" /\ lastAccepted = "red"
    /\ ev.type = "EVENT_LBUTTONDOWN" /\ ev.y < header_height
    /\ clicked = None

====
